---------------------------- MODULE Spec2Model ----------------------------
(***************************************************************************)
(* Model of src/main.py: run_simulation() and TyreFactory.process_tyre()   *)
(* on top of the simpy kernel (Environment, Process, Timeout, Resource).   *)
(*                                                                         *)
(* Virtual time is counted in seconds: get_process_time returns            *)
(* uniform(lo, hi) / 60 minutes, i.e. uniform(lo, hi) seconds; curing      *)
(* times and the horizon are given in minutes and are multiplied by 60.    *)
(*                                                                         *)
(* One step of the model is one of: a process creation of the loop at      *)
(* lines 233-235, the call env.run(until=...), the processing of one       *)
(* event popped from the environment's queue (with the generator code that *)
(* runs in its callbacks), or get_production_insights().                   *)
(***************************************************************************)
EXTENDS Integers, Sequences, FiniteSets, TLC

VARIABLES
    orders,            \* run_simulation argument: the list of TyreOrder
    simulation_time,   \* run_simulation argument: the horizon, in minutes
    seed,              \* state of the random module: the stream it yields
    draws,             \* state of the random module: variates consumed
    now,               \* env.now
    queue,             \* env._queue: the scheduled events
    eid,               \* env._eid: the next event id
    users,             \* Resource.users, per resource: the granted requests
    put_queue,         \* Resource.put_queue, per resource: pending requests
    procs,             \* the process_tyre generators, in creation order
    production_stats,  \* factory.production_stats
    phase,             \* position in run_simulation
    oi,                \* creation loop: index of the current order
    cnt,               \* creation loop: units of the current order created
    insights,          \* value returned by run_simulation
    grant_log          \* history: per resource, the grants in grant order

vars == << orders, simulation_time, seed, draws, now, queue, eid, users,
           put_queue, procs, production_stats, phase, oi, cnt, insights,
           grant_log >>

-----------------------------------------------------------------------------
(* Bounds of the model *)

\* largest quantity of an order in the small order lists
MaxQty == 2

\* period of the modelled random stream
StreamPeriod == 2

\* quantity of the single large order (one more than the oven takes)
BatchQty == 13

\* lengths of the small order lists
OrderListLens == {1, 2}

\* horizons (minutes) tried for simulation_time; 480 is the default
HorizonChoices == {2, 116, 480}


-----------------------------------------------------------------------------
(* Configuration of the factory *)

Resources == { "wrap_inner_heal", "apply_bead", "wrap_heal", "resilient_bond",
               "press_on_bond", "wrap_soft", "wrap_tread", "press",
               "curing_ovens" }

OvenCapacity == 12

\* variant of StationCapacity: a station takes two jobs at a time
StationCapacityTwo == 1 + 1

StationCapacity == 1

Capacity(r) == IF r = "curing_ovens" THEN OvenCapacity ELSE StationCapacity

TyreTypes == { "Resilient-SoftBond", "Resilient-Basic", "Press-On" }

Sizes == { "Small", "Medium", "Large" }

TempRanges == << "optimal", "acceptable", "minimum" >>

\* variant of Steps: the second branch is never taken, a Resilient-Basic tyre
\* falls through to the steps of the last branch
StepsWithoutBasic(tyre_type) ==
    IF tyre_type = "Resilient-SoftBond" THEN
        << << "wrap_inner_heal", "wrap_inner_heal" >>,
           << "apply_bead", "apply_bead" >>,
           << "wrap_heal", "wrap_heal" >>,
           << "resilient_bond", "wrap_bond" >>,
           << "wrap_soft", "wrap_soft" >>,
           << "wrap_tread", "wrap_tread" >>,
           << "press", "press" >> >>
    ELSE
        << << "press_on_bond", "wrap_bond" >>,
           << "wrap_soft", "wrap_soft" >>,
           << "wrap_tread", "wrap_tread" >>,
           << "press", "press" >> >>

\* steps of process_tyre: the (resource, step_name) pairs of a tyre type
Steps(tyre_type) ==
    IF tyre_type = "Resilient-SoftBond" THEN
        << << "wrap_inner_heal", "wrap_inner_heal" >>,
           << "apply_bead", "apply_bead" >>,
           << "wrap_heal", "wrap_heal" >>,
           << "resilient_bond", "wrap_bond" >>,
           << "wrap_soft", "wrap_soft" >>,
           << "wrap_tread", "wrap_tread" >>,
           << "press", "press" >> >>
    ELSE IF tyre_type = "Resilient-Basic" THEN
        << << "wrap_inner_heal", "wrap_inner_heal" >>,
           << "apply_bead", "apply_bead" >>,
           << "wrap_heal", "wrap_heal" >>,
           << "wrap_tread", "wrap_tread" >>,
           << "press", "press" >> >>
    ELSE
        << << "press_on_bond", "wrap_bond" >>,
           << "wrap_soft", "wrap_soft" >>,
           << "wrap_tread", "wrap_tread" >>,
           << "press", "press" >> >>

\* time_ranges of get_process_time, with its default (45, 55)
TimeRange(process_name) ==
    IF process_name = "wrap_inner_heal" THEN << 40, 50 >>
    ELSE IF process_name = "press" THEN << 120, 300 >>
    ELSE << 45, 55 >>

BaseTime(tyre_type) ==
    IF tyre_type = "Resilient-SoftBond" THEN 120
    ELSE IF tyre_type = "Resilient-Basic" THEN 100
    ELSE 90

TempAdjustment(temp_range) ==
    IF temp_range = "optimal" THEN 0
    ELSE IF temp_range = "acceptable" THEN 20
    ELSE 40

SizeAdjustment(size) ==
    IF size = "Small" THEN 0
    ELSE IF size = "Medium" THEN 15
    ELSE 30

\* get_curing_time, in seconds of virtual time
CuringTime(tyre_type, size, temp_range) ==
    (BaseTime(tyre_type) + TempAdjustment(temp_range) + SizeAdjustment(size)) * 60

\* pid prefix of a tyre type (type_mapping of the main block, inverted)
PidOf(tyre_type) ==
    IF tyre_type = "Resilient-SoftBond" THEN "101"
    ELSE IF tyre_type = "Press-On" THEN "102"
    ELSE "103"

-----------------------------------------------------------------------------
(* The random module: a stream of variates in 0..2 fixed by the seed *)

Variates == 0 .. 2

Seeds == [ 0 .. (StreamPeriod - 1) -> Variates ]

\* the n-th variate of the stream (n counted from 0)
Variate(s, n) == s[n % StreamPeriod]

\* random.uniform(lo, hi) for variate u: lo, the midpoint or hi
Uniform(lo, hi, u) == lo + (u * (hi - lo)) \div 2

\* get_process_time, in seconds of virtual time
ProcessTime(process_name, u) ==
    Uniform(TimeRange(process_name)[1], TimeRange(process_name)[2], u)

\* random.choice(seq) for variate u
Choice(seq, u) == seq[1 + (u % Len(seq))]

-----------------------------------------------------------------------------
(* The simpy environment *)

URGENT == 0

NORMAL == 1

NoProc == 0

NoRes == "none"

Event(t, prio, id, kind, proc, res) ==
    [ time |-> t, prio |-> prio, eid |-> id, kind |-> kind, proc |-> proc,
      res |-> res ]

\* variant of Before: among events due together, the latest scheduled goes
\* first
BeforeLatestFirst(a, b) ==
    \/ a.time < b.time
    \/ a.time = b.time /\ a.prio < b.prio
    \/ a.time = b.time /\ a.prio = b.prio /\ a.eid > b.eid

\* variant of Before: among events due together, NORMAL goes before URGENT
BeforeNormalFirst(a, b) ==
    \/ a.time < b.time
    \/ a.time = b.time /\ a.prio > b.prio
    \/ a.time = b.time /\ a.prio = b.prio /\ a.eid < b.eid

\* order of env._queue: by (time, priority, event id)
Before(a, b) ==
    \/ a.time < b.time
    \/ a.time = b.time /\ a.prio < b.prio
    \/ a.time = b.time /\ a.prio = b.prio /\ a.eid < b.eid

\* the event env.step() pops
NextEvent(q) == CHOOSE e \in q : \A f \in q \ {e} : Before(e, f)

\* The kernel state the operators below transform
Kernel == [ queue |-> queue, eid |-> eid, users |-> users,
            put_queue |-> put_queue, grant_log |-> grant_log ]

\* variant of Schedule: the delay is taken as the due time
ScheduleAtDelay(K, t, prio, delay, kind, proc, res) ==
    [ K EXCEPT !.queue = @ \cup { Event(delay, prio, K.eid, kind, proc, res) },
               !.eid = @ + 1 ]

\* env.schedule(event, priority, delay) at time t
Schedule(K, t, prio, delay, kind, proc, res) ==
    [ K EXCEPT !.queue = @ \cup { Event(t + delay, prio, K.eid, kind, proc, res) },
               !.eid = @ + 1 ]

\* variant of PutIndex: the latest request is examined, not the oldest
PutIndexLast(pq) == Len(pq)

\* index of the request BaseResource._trigger_put examines: the loop stops
\* after the first request because Resource._do_put returns None
PutIndex(pq) == 1

\* variant of HasSlot: the bound is tested with <= instead of <
HasSlotOffByOne(K, r) == Len(K.users[r]) <= Capacity(r)

\* Resource._do_put: has the resource a free slot for one more user
HasSlot(K, r) == Len(K.users[r]) < Capacity(r)

\* BaseResource._trigger_put with Resource._do_put at time t; arr gives the
\* time each process issued its pending request
TriggerPut(K, r, t, arr) ==
    IF K.put_queue[r] # << >> /\ HasSlot(K, r)
    THEN LET i == PutIndex(K.put_queue[r])
             j == K.put_queue[r][i]
             K1 == [ K EXCEPT
                       !.users[r] = Append(@, j),
                       !.put_queue[r] =
                           SubSeq(@, 1, i - 1) \o SubSeq(@, i + 1, Len(@)),
                       !.grant_log[r] =
                           Append(@, [ proc |-> j, enq |-> arr[j], at |-> t ]) ]
         IN  Schedule(K1, t, NORMAL, 0, "Request", j, r)
    ELSE K

\* variant of Request: the request is queued and _trigger_put is not called
RequestQueuedOnly(K, r, j, t, arr) ==
    [ K EXCEPT !.put_queue[r] = Append(@, j) ]

\* variant of Request: the request is issued twice
RequestTwice(K, r, j, t, arr) ==
    TriggerPut([ TriggerPut([ K EXCEPT !.put_queue[r] = Append(@, j) ], r, t, arr)
                   EXCEPT !.put_queue[r] = Append(@, j) ], r, t, arr)

\* resource.request() by process j at time t
Request(K, r, j, t, arr) ==
    TriggerPut([ K EXCEPT !.put_queue[r] = Append(@, j) ], r, t, arr)

\* variant of Remove: the request stays among the users
RemoveNone(s, j) == s

\* users.remove(request) of Resource._do_get
Remove(s, j) == SelectSeq(s, LAMBDA x : x # j)

\* variant of Release: the request leaves users and no Release event is
\* scheduled, so that nothing re-examines the wait queue
ReleaseUnscheduled(K, r, j, t) == [ K EXCEPT !.users[r] = Remove(@, j) ]

\* variant of Release: the request is released a second time
ReleaseTwice(K, r, j, t) ==
    Schedule(Schedule([ K EXCEPT !.users[r] = Remove(@, j) ], t, NORMAL, 0,
                      "Release", j, r),
             t, NORMAL, 0, "Release", j, r)

\* resource.release(req) by process j at time t: Resource._do_get removes
\* the request from users and the Release event is scheduled
Release(K, r, j, t) ==
    Schedule([ K EXCEPT !.users[r] = Remove(@, j) ], t, NORMAL, 0,
             "Release", j, r)

-----------------------------------------------------------------------------
(* The process_tyre generators *)

\* TyreOrder (brand and tread_pattern are never read by the simulation)
TyreOrder(tyre_type, size, quantity) ==
    [ pid |-> PidOf(tyre_type), tyre_type |-> tyre_type, size |-> size,
      quantity |-> quantity ]

\* ProductionStats as process_tyre creates it; the serial number (a uuid4)
\* is modelled by the creation index of the process
ProductionStats(serial_number, pid, start_time) ==
    [ serial_number |-> serial_number, pid |-> pid, start_time |-> start_time,
      end_time |-> 0, waiting_times |-> << >>, total_production_time |-> 0 ]

\* a generator created by factory.process_tyre(order), not yet started;
\* process_times is the history of its locals process_time and curing_time:
\* the duration of every timeout it has started, in order
NewProcess(order) ==
    [ order |-> order, pc |-> "created", steps |-> << >>, i |-> 0,
      arrival_time |-> 0, stats |-> ProductionStats(0, order.pid, 0),
      process_times |-> << >> ]

\* variant of SetWait: the dict is replaced instead of extended
SetWaitOnly(waiting_times, step_name, waiting_time) ==
    << << step_name, waiting_time >> >>

\* stats.waiting_times[step_name] = waiting_time; the dict is kept as the
\* sequence of its items in insertion order (no route repeats a step name)
SetWait(waiting_times, step_name, waiting_time) ==
    Append(waiting_times, << step_name, waiting_time >>)

\* variant of WaitingTime: the clock is recorded instead of the difference
WaitingTimeAbsolute(t, arrival_time) == t

\* waiting_time = self.env.now - arrival_time, at time t
WaitingTime(t, arrival_time) == t - arrival_time

\* time at which each process issued its latest request
ArrivalTimes(P) == [ j \in 1 .. Len(P) |-> P[j].arrival_time ]

Jobs == 1 .. Len(procs)

-----------------------------------------------------------------------------
(* Inputs: orders of the three tyre types and three sizes the tables of   *)
(* get_curing_time know, each of quantity 1 or more                       *)

\* orders of up to MaxQty tyres of one size
SmallOrders(size) ==
    { TyreOrder(k, size, n) : k \in TyreTypes, n \in 1 .. MaxQty }

\* one or two orders of Small tyres, or one order of Large tyres
SmallOrderLists ==
    UNION { [ 1 .. n -> SmallOrders("Small") ] : n \in OrderListLens }
      \cup { << o >> : o \in SmallOrders("Large") }

\* one order of Medium tyres that overfills the ovens
BatchOrderLists ==
    { << TyreOrder(k, "Medium", BatchQty) >> : k \in TyreTypes }

OrderLists == SmallOrderLists \cup BatchOrderLists

Init ==
    /\ orders \in OrderLists
    /\ simulation_time \in HorizonChoices
    /\ seed \in Seeds
    /\ draws = 0
    /\ now = 0
    /\ queue = {}
    /\ eid = 0
    /\ users = [ r \in Resources |-> << >> ]
    /\ put_queue = [ r \in Resources |-> << >> ]
    /\ procs = << >>
    /\ production_stats = << >>
    /\ phase = "create"
    /\ oi = 1
    /\ cnt = 0
    /\ insights = [ kind |-> "none" ]
    /\ grant_log = [ r \in Resources |-> << >> ]

-----------------------------------------------------------------------------
(* run_simulation: creation loop and env.run *)

\* the kernel state after a step (k: the value of K, computed once)
SetKernel(K) ==
    \E k \in { K } :
        /\ queue' = k.queue
        /\ eid' = k.eid
        /\ users' = k.users
        /\ put_queue' = k.put_queue
        /\ grant_log' = k.grant_log

\* env.process(factory.process_tyre(order)): the generator is created and
\* its Initialize event is scheduled URGENT; no line of its body runs yet
CreateProcess ==
    /\ phase = "create"
    /\ oi <= Len(orders)
    /\ procs' = Append(procs, NewProcess(orders[oi]))
    /\ SetKernel(Schedule(Kernel, now, URGENT, 0, "Initialize",
                          Len(procs) + 1, NoRes))
    /\ IF cnt + 1 < orders[oi].quantity
       THEN cnt' = cnt + 1 /\ oi' = oi
       ELSE cnt' = 0 /\ oi' = oi + 1
    /\ UNCHANGED << orders, simulation_time, seed, draws, now,
                    production_stats, phase, insights >>

\* variant of Horizon: the minutes are converted a second time
HorizonConvertedTwice == simulation_time * 60 * 60

\* the horizon in seconds of virtual time
Horizon == simulation_time * 60

\* priority of the event env.run(until=...) schedules to stop the run
UntilPriority == URGENT

\* env.run(until=simulation_time): the stop event is scheduled at the horizon
RunUntil ==
    /\ phase = "create"
    /\ oi > Len(orders)
    /\ Horizon > now
    /\ SetKernel(Schedule(Kernel, now, UntilPriority, Horizon - now, "Until",
                          NoProc, NoRes))
    /\ phase' = "run"
    /\ UNCHANGED << orders, simulation_time, seed, draws, now, procs,
                    production_stats, oi, cnt, insights >>

-----------------------------------------------------------------------------
(* env.step(): one event is popped and its callbacks run *)

Popped == [ Kernel EXCEPT !.queue = @ \ { NextEvent(queue) } ]

Fires(kind) ==
    /\ phase = "run"
    /\ queue # {}
    /\ NextEvent(queue).kind = kind

\* Initialize event: the generator runs from line 91 to its first yield
ProcessStart ==
    /\ Fires("Initialize")
    /\ LET ev == NextEvent(queue)
           j == ev.proc
           steps == Steps(procs[j].order.tyre_type)
           P == [ procs EXCEPT ![j] =
                    [ @ EXCEPT !.pc = "request",
                               !.steps = steps,
                               !.i = 1,
                               !.arrival_time = ev.time,
                               !.stats = ProductionStats(j, procs[j].order.pid,
                                                        ev.time) ] ]
       IN  /\ now' = ev.time
           /\ procs' = P
           /\ SetKernel(Request(Popped, steps[1][1], j, ev.time, ArrivalTimes(P)))
    /\ UNCHANGED << orders, simulation_time, seed, draws, production_stats,
                    phase, oi, cnt, insights >>

\* Request event of a station: the generator resumes at line 138 and runs
\* to the timeout of line 141
StationGranted ==
    /\ Fires("Request")
    /\ procs[NextEvent(queue).proc].pc = "request"
    /\ LET ev == NextEvent(queue)
           j == ev.proc
           p == procs[j]
           step_name == p.steps[p.i][2]
           waiting_time == WaitingTime(ev.time, p.arrival_time)
           process_time == ProcessTime(step_name, Variate(seed, draws))
       IN  /\ now' = ev.time
           /\ procs' = [ procs EXCEPT ![j] =
                  [ @ EXCEPT !.pc = "service",
                             !.stats.waiting_times =
                                 SetWait(@, step_name, waiting_time),
                             !.process_times = Append(@, process_time) ] ]
           /\ draws' = draws + 1
           /\ SetKernel(Schedule(Popped, ev.time, NORMAL, process_time,
                                 "Timeout", j, NoRes))
    /\ UNCHANGED << orders, simulation_time, seed, production_stats, phase,
                    oi, cnt, insights >>

\* Timeout event of a station: the generator resumes at line 142, releases
\* the station and requests the next one (line 136) or the ovens (line 146)
StationServed ==
    /\ Fires("Timeout")
    /\ procs[NextEvent(queue).proc].pc = "service"
    /\ LET ev == NextEvent(queue)
           j == ev.proc
           p == procs[j]
           last == p.i = Len(p.steps)
           next == IF last THEN "curing_ovens" ELSE p.steps[p.i + 1][1]
           P == [ procs EXCEPT ![j] =
                    [ @ EXCEPT !.pc = IF last THEN "cure_request" ELSE "request",
                               !.i = IF last THEN @ ELSE @ + 1,
                               !.arrival_time = ev.time ] ]
           K1 == Release(Popped, p.steps[p.i][1], j, ev.time)
       IN  /\ now' = ev.time
           /\ procs' = P
           /\ SetKernel(Request(K1, next, j, ev.time, ArrivalTimes(P)))
    /\ UNCHANGED << orders, simulation_time, seed, draws, production_stats,
                    phase, oi, cnt, insights >>

\* Request event of the ovens: the generator resumes at line 148 and runs
\* to the timeout of line 155
CuringGranted ==
    /\ Fires("Request")
    /\ procs[NextEvent(queue).proc].pc = "cure_request"
    /\ LET ev == NextEvent(queue)
           j == ev.proc
           p == procs[j]
           waiting_time == WaitingTime(ev.time, p.arrival_time)
           temp_range == Choice(TempRanges, Variate(seed, draws))
           curing_time == CuringTime(p.order.tyre_type, p.order.size, temp_range)
       IN  /\ now' = ev.time
           /\ procs' = [ procs EXCEPT ![j] =
                  [ @ EXCEPT !.pc = "curing",
                             !.stats.waiting_times =
                                 SetWait(@, "curing", waiting_time),
                             !.process_times = Append(@, curing_time) ] ]
           /\ draws' = draws + 1
           /\ SetKernel(Schedule(Popped, ev.time, NORMAL, curing_time,
                                 "Timeout", j, NoRes))
    /\ UNCHANGED << orders, simulation_time, seed, production_stats, phase,
                    oi, cnt, insights >>

\* variant of Completed: end_time is not set
CompletedUnmarked(stats, t) ==
    [ stats EXCEPT !.total_production_time = t - stats.start_time ]

\* stats as lines 159-160 complete it
Completed(stats, t) ==
    [ stats EXCEPT !.end_time = t,
                   !.total_production_time = t - stats.start_time ]

\* Timeout event of the curing: the generator resumes at line 156, releases
\* the oven, records the completion and ends (its Process event is scheduled)
CuringDone ==
    /\ Fires("Timeout")
    /\ procs[NextEvent(queue).proc].pc = "curing"
    /\ LET ev == NextEvent(queue)
           j == ev.proc
           done == Completed(procs[j].stats, ev.time)
           K1 == Release(Popped, "curing_ovens", j, ev.time)
       IN  /\ now' = ev.time
           /\ procs' = [ procs EXCEPT ![j] =
                  [ @ EXCEPT !.pc = "finished", !.stats = done ] ]
           /\ production_stats' = Append(production_stats, done)
           /\ SetKernel(Schedule(K1, ev.time, NORMAL, 0, "Process", j, NoRes))
    /\ UNCHANGED << orders, simulation_time, seed, draws, phase, oi, cnt,
                    insights >>

\* Release event: its callback is the resource's _trigger_put
ReleaseProcessed ==
    /\ Fires("Release")
    /\ LET ev == NextEvent(queue)
       IN  /\ now' = ev.time
           /\ SetKernel(TriggerPut(Popped, ev.res, ev.time, ArrivalTimes(procs)))
    /\ UNCHANGED << orders, simulation_time, seed, draws, procs,
                    production_stats, phase, oi, cnt, insights >>

\* Process event of an ended generator: it has no callbacks
ProcessEnded ==
    /\ Fires("Process")
    /\ now' = NextEvent(queue).time
    /\ SetKernel(Popped)
    /\ UNCHANGED << orders, simulation_time, seed, draws, procs,
                    production_stats, phase, oi, cnt, insights >>

\* the stop event of env.run: StopSimulation ends the run
StopSimulation ==
    /\ Fires("Until")
    /\ now' = NextEvent(queue).time
    /\ SetKernel(Popped)
    /\ phase' = "stopped"
    /\ UNCHANGED << orders, simulation_time, seed, draws, procs,
                    production_stats, oi, cnt, insights >>

-----------------------------------------------------------------------------
(* get_production_insights *)

RECURSIVE SumSeq(_)
SumSeq(s) == IF s = << >> THEN 0 ELSE Head(s) + SumSeq(Tail(s))

\* max(times) of a non-empty list
MaxSeq(s) ==
    CHOOSE x \in { s[k] : k \in 1 .. Len(s) } : \A k \in 1 .. Len(s) : x >= s[k]

\* min(times) of a non-empty list
MinSeq(s) ==
    CHOOSE x \in { s[k] : k \in 1 .. Len(s) } : \A k \in 1 .. Len(s) : x <= s[k]

\* statistics.mean(times), kept as the exact fraction sum / count
Mean(times) == << SumSeq(times), Len(times) >>

\* [stat.total_production_time for stat in ...]
TotalTimes(stats_list) ==
    [ k \in 1 .. Len(stats_list) |-> stats_list[k].total_production_time ]

\* stat.pid.split('.')[0]: a pid is modelled by its prefix
TypeKey(stat) == stat.pid

\* variant of Aggregated: the stats of every process, completed or not
AggregatedAll(stats_list) == [ j \in 1 .. Len(procs) |-> procs[j].stats ]

\* the stats the aggregates of get_production_insights are computed from
Aggregated(stats_list) == stats_list

\* type_stats[tyre_type]: the production times of the stats of one pid prefix
TypeTimes(stats_list, tyre_type) ==
    TotalTimes(SelectSeq(stats_list, LAMBDA stat : TypeKey(stat) = tyre_type))

\* the waits recorded under a station name in one waiting_times dict
WaitsOf(waiting_times, station) ==
    LET items == SelectSeq(waiting_times, LAMBDA item : item[1] = station)
    IN  [ k \in 1 .. Len(items) |-> items[k][2] ]

RECURSIVE StationTimes(_, _)
\* station_waiting_times[station]: the waits of a station over the stats
StationTimes(stats_list, station) ==
    IF stats_list = << >> THEN << >>
    ELSE WaitsOf(Head(stats_list).waiting_times, station)
             \o StationTimes(Tail(stats_list), station)

StationNames(stats_list) ==
    UNION { { stats_list[k].waiting_times[n][1] :
                n \in 1 .. Len(stats_list[k].waiting_times) } :
            k \in 1 .. Len(stats_list) }

ProductionInsights(stats_list, t) ==
    IF stats_list = << >>
    THEN [ kind |-> "message", text |-> "No production data available" ]
    ELSE LET all == TotalTimes(Aggregated(stats_list))
             types == { TypeKey(Aggregated(stats_list)[k]) :
                          k \in 1 .. Len(Aggregated(stats_list)) }
             stations == StationNames(Aggregated(stats_list))
         IN  [ kind |-> "dict",
               overall_statistics |->
                 [ total_tyres_produced |-> Len(stats_list),
                   avg_production_time |-> Mean(all),
                   max_production_time |-> MaxSeq(all),
                   min_production_time |-> MinSeq(all),
                   total_simulation_time |-> t ],
               tyre_type_statistics |->
                 [ y \in types |->
                     LET times == TypeTimes(Aggregated(stats_list), y)
                     IN  [ count |-> Len(times), avg_time |-> Mean(times),
                           min_time |-> MinSeq(times),
                           max_time |-> MaxSeq(times) ] ],
               station_statistics |->
                 [ n \in stations |->
                     LET times == StationTimes(Aggregated(stats_list), n)
                     IN  [ avg_wait |-> Mean(times), max_wait |-> MaxSeq(times),
                           min_wait |-> MinSeq(times),
                           total_wait |-> SumSeq(times) ] ] ]

\* return factory.get_production_insights() (line 240)
GetProductionInsights ==
    /\ phase = "stopped"
    /\ insights' = ProductionInsights(production_stats, now)
    /\ phase' = "returned"
    /\ UNCHANGED << orders, simulation_time, seed, draws, now, queue, eid,
                    users, put_queue, procs, production_stats, oi, cnt,
                    grant_log >>

-----------------------------------------------------------------------------

Next ==
    \/ CreateProcess
    \/ RunUntil
    \/ ProcessStart
    \/ StationGranted
    \/ StationServed
    \/ CuringGranted
    \/ CuringDone
    \/ ReleaseProcessed
    \/ ProcessEnded
    \/ StopSimulation
    \/ GetProductionInsights

Spec == Init /\ [][Next]_vars

\* the default horizon of run_simulation, in minutes (an 8-hour shift)
DefaultSimulationTime == 480

\* the runs with the default horizon
DefaultInit == Init /\ simulation_time = DefaultSimulationTime

\* run_simulation is sequential code: it goes on as long as it has a step
LiveSpec == DefaultInit /\ [][Next]_vars /\ WF_vars(Next)

-----------------------------------------------------------------------------
(* Properties *)

\* in_use of a resource: the number of requests that hold it
InUse(r) == Len(users[r])

\* C1 - Capacity invariant: in every reachable state, every resource (the
\* eight stations of capacity 1 and the curing ovens of capacity 12) has
\* 0 <= in_use <= capacity.
C1_CapacityInvariant ==
    \A r \in Resources : 0 <= InUse(r) /\ InUse(r) <= Capacity(r)

\* the ovens are full with a request waiting behind them, after a station
\* has been held with a request waiting behind it
C1_Witness ==
    /\ InUse("curing_ovens") = OvenCapacity
    /\ put_queue["curing_ovens"] # << >>
    /\ \E r \in Resources \ {"curing_ovens"} :
          \E k \in 1 .. Len(grant_log[r]) : grant_log[r][k].at > grant_log[r][k].enq

\* the grants of a resource are in non-decreasing order of enqueue time
GrantsOrdered(r) ==
    \A a, b \in 1 .. Len(grant_log[r]) :
        a < b => grant_log[r][a].enq <= grant_log[r][b].enq

\* a step that grants resource r grants it to the oldest pending request
HeadGranted(r) ==
    (Len(grant_log'[r]) > Len(grant_log[r]) /\ put_queue[r] # << >>)
        => /\ grant_log'[r][Len(grant_log'[r])].proc = Head(put_queue[r])
           /\ \A k \in 1 .. Len(put_queue'[r]) :
                 grant_log'[r][Len(grant_log'[r])].enq
                     <= procs'[put_queue'[r][k]].arrival_time

\* C2 - FIFO fairness: every resource grants its requests in non-decreasing
\* order of enqueue time, and a step that grants a resource with pending
\* requests grants the one at the head of the queue, so that no request that
\* arrived later is granted before one that is still pending.
C2_FifoFairness ==
    /\ [](\A r \in Resources : GrantsOrdered(r))
    /\ [][\A r \in Resources : HeadGranted(r)]_vars

\* a request that had to wait was granted while a request that arrived
\* later, but before that grant, was pending behind it
C2_Witness ==
    \E r \in Resources :
        /\ put_queue[r] # << >>
        /\ grant_log[r] # << >>
        /\ LET g == grant_log[r][Len(grant_log[r])]
               h == procs[Head(put_queue[r])]
           IN  /\ g.at > g.enq
               /\ h.arrival_time < g.at
               /\ h.arrival_time > g.enq

\* C3 - Time monotonicity: no step of a run (event firing, grant, release,
\* timeout expiry) decreases the virtual clock.
C3_TimeMonotonic == [][now' >= now]_vars

\* the clock has advanced and an event due at the current instant is pending
C3_Witness ==
    /\ phase = "run"
    /\ now > 0
    /\ \E e \in queue : e.time = now
    /\ \E e \in queue : e.time > now /\ e.kind = "Timeout"

Finished(j) == procs[j].pc = "finished"

\* the stats object of process j is in factory.production_stats
InStats(j) ==
    \E k \in 1 .. Len(production_stats) : production_stats[k].serial_number = j

\* process j has recorded a wait under station name n
Recorded(j, n) == WaitsOf(procs[j].stats.waiting_times, n) # << >>

StepNames ==
    { "wrap_inner_heal", "apply_bead", "wrap_heal", "wrap_bond", "wrap_soft",
      "wrap_tread", "press", "curing" }

\* number of waits the returned station statistics aggregate under name n
ReturnedSamples(n) ==
    IF insights.kind = "dict" /\ n \in DOMAIN insights.station_statistics
    THEN insights.station_statistics[n].avg_wait[2]
    ELSE 0

\* total of the waits the returned station statistics aggregate under name n
ReturnedTotalWait(n) ==
    IF insights.kind = "dict" /\ n \in DOMAIN insights.station_statistics
    THEN insights.station_statistics[n].total_wait
    ELSE 0

\* number of tyres the returned statistics count for pid prefix y
ReturnedTypeCount(y) ==
    IF insights.kind = "dict" /\ y \in DOMAIN insights.tyre_type_statistics
    THEN insights.tyre_type_statistics[y].count
    ELSE 0

RECURSIVE FinishedWaitSum(_, _)
\* total of the waits recorded under name n by the finished processes 1..k
FinishedWaitSum(n, k) ==
    IF k = 0 THEN 0
    ELSE FinishedWaitSum(n, k - 1)
           + (IF Finished(k) THEN SumSeq(WaitsOf(procs[k].stats.waiting_times, n))
              ELSE 0)

\* C4 - Horizon truncation, completed set: a job that has not finished its
\* last stage (curing, with the release of the oven) never appears in
\* production_stats, and once the insights are returned none of its waits
\* is counted in the per-station aggregates and it is not counted in the
\* per-kind aggregates: they cover the finished jobs only.
C4_CompletedSetOnly ==
    /\ \A j \in Jobs :
          InStats(j) => (Finished(j) /\ \A k \in 1 .. Len(users["curing_ovens"]) :
                                          users["curing_ovens"][k] # j)
    /\ phase = "returned" =>
          /\ (insights.kind = "dict") = (\E j \in Jobs : Finished(j))
          /\ insights.kind = "dict" =>
                insights.overall_statistics.total_tyres_produced
                    = Cardinality({ j \in Jobs : Finished(j) })
          /\ \A n \in StepNames :
                /\ ReturnedSamples(n)
                       = Cardinality({ j \in Jobs : Finished(j) /\ Recorded(j, n) })
                /\ ReturnedTotalWait(n) = FinishedWaitSum(n, Len(procs))
          /\ \A y \in { PidOf(k) : k \in TyreTypes } :
                ReturnedTypeCount(y)
                    = Cardinality({ j \in Jobs : Finished(j) /\ procs[j].order.pid = y })

\* process j was started and is not finished, with at least one wait
\* recorded, when the run has ended
Interrupted(j) ==
    /\ phase \in { "stopped", "returned" }
    /\ ~ Finished(j)
    /\ procs[j].stats.waiting_times # << >>

\* insights were returned for completed jobs while another job, which waited
\* in a queue and recorded that wait, was cut off by the horizon
C4_Witness ==
    /\ phase = "returned"
    /\ insights.kind = "dict"
    /\ \E j \in Jobs :
          /\ Interrupted(j)
          /\ \E m \in 1 .. Len(procs[j].stats.waiting_times) :
                procs[j].stats.waiting_times[m][2] > 0

\* number of stages of its route process j has been granted
GrantedStages(j) ==
    IF procs[j].pc = "request" THEN procs[j].i - 1
    ELSE IF procs[j].pc = "service" THEN procs[j].i
    ELSE IF procs[j].pc = "cure_request" THEN Len(procs[j].steps)
    ELSE IF procs[j].pc \in { "curing", "finished" } THEN Len(procs[j].steps) + 1
    ELSE 0

\* name under which process j records the wait of its m-th stage
StageName(j, m) ==
    IF m <= Len(procs[j].steps) THEN procs[j].steps[m][2] ELSE "curing"

\* C5 (as claimed) - Horizon truncation, partial records: the waits an
\* interrupted job recorded are present in what the run returns: the returned
\* station statistics hold a sample for every wait recorded under each name.
C5_PartialRecordsReturned ==
    phase = "returned" =>
        \A j \in Jobs : Interrupted(j) =>
            \A n \in StepNames : Recorded(j, n) =>
                ReturnedSamples(n) >= Cardinality({ k \in Jobs : Recorded(k, n) })

\* C5 (amended) - the waits an interrupted job recorded stay in its own stats
\* object only (one per stage it was granted, in route order): that object is
\* not in production_stats, and the returned station statistics hold fewer
\* samples under each of its names than were recorded.
C5_PartialRecordsDropped ==
    phase = "returned" =>
        \A j \in Jobs : Interrupted(j) =>
            /\ ~ InStats(j)
            /\ Len(procs[j].stats.waiting_times) = GrantedStages(j)
            /\ \A m \in 1 .. Len(procs[j].stats.waiting_times) :
                  procs[j].stats.waiting_times[m][1] = StageName(j, m)
            /\ \A n \in StepNames : Recorded(j, n) =>
                  ReturnedSamples(n) < Cardinality({ k \in Jobs : Recorded(k, n) })

\* the run returned while a job that had recorded the waits of at least two
\* stages was cut off, and another job was completed
C5_Witness ==
    /\ phase = "returned"
    /\ production_stats # << >>
    /\ \E j \in Jobs :
          Interrupted(j) /\ Len(procs[j].stats.waiting_times) >= 2

\* C6 (as claimed) - Horizon boundary: every event due at or before the
\* horizon is fired: when the run has ended, no event due at or before the
\* horizon is left in the queue.
C6_FiresUpToHorizon ==
    phase \in { "stopped", "returned" } => \A e \in queue : e.time > Horizon

\* C6 (amended) - the driver fires every event due before the horizon and no
\* event due at or after it: while the run goes on the clock is below the
\* horizon, every completion is recorded before the horizon, and when the run
\* has ended the clock is at the horizon and exactly the events due at or
\* after the horizon are left, their jobs unfinished.
C6_FiresBeforeHorizon ==
    /\ phase = "run" => now < Horizon
    /\ \A k \in 1 .. Len(production_stats) :
          production_stats[k].end_time < Horizon
    /\ phase \in { "stopped", "returned" } =>
          /\ now = Horizon
          /\ \A e \in queue :
                /\ e.time >= Horizon
                /\ e.kind = "Timeout"
                /\ ~ Finished(e.proc)

\* the run has ended with the curing timeout of a job due exactly at the
\* horizon still in the queue, and with a timeout due after the horizon
C6_Witness ==
    /\ phase = "stopped"
    /\ \E e \in queue :
          e.kind = "Timeout" /\ e.time = Horizon /\ procs[e.proc].pc = "curing"
    /\ \E e \in queue : e.time > Horizon

\* the station the route of process j begins with
FirstStation(j) == Steps(procs[j].order.tyre_type)[1][1]

\* the processes created before j whose routes begin with the same station
Predecessors(j) ==
    { p \in Jobs : p < j /\ FirstStation(p) = FirstStation(j) }

\* every process created before j at the same first station was serviced
\* there for the duration d
UniformBefore(j, d) ==
    \A p \in Predecessors(j) :
        procs[p].process_times # << >> /\ procs[p].process_times[1] = d

\* process j has released its first station
LeftFirst(j) ==
    procs[j].pc \in { "request", "service", "cure_request", "curing", "finished" }
        /\ GrantedStages(j) + (IF procs[j].pc = "request" THEN 1 ELSE 0) >= 2

\* time at which process j released its first station: the time of its
\* request for the second one
LeftFirstAt(j) ==
    IF procs[j].pc = "request" /\ procs[j].i = 2
    THEN procs[j].arrival_time
    ELSE LET log == grant_log[procs[j].steps[2][1]]
             k == CHOOSE k \in 1 .. Len(log) : log[k].proc = j
         IN  log[k].enq

\* durations get_process_time can return for the first station of process j
FirstDurations(j) ==
    { ProcessTime(Steps(procs[j].order.tyre_type)[1][2], u) : u \in Variates }

\* C7 - Conservation: all jobs are created at time 0; at the capacity-1
\* station a route begins with, when the jobs created before job j at that
\* station (k of them) were each serviced for the same duration d, job j
\* waits k*d there, and if it is serviced for d too it leaves the station at
\* (k+1)*d.
C7_Conservation ==
    \A j \in Jobs : \A d \in FirstDurations(j) :
        UniformBefore(j, d) =>
            /\ procs[j].stats.waiting_times # << >> =>
                  /\ procs[j].stats.start_time = 0
                  /\ procs[j].stats.waiting_times[1][2]
                         = Cardinality(Predecessors(j)) * d
            /\ (LeftFirst(j) /\ procs[j].process_times[1] = d) =>
                  LeftFirstAt(j) = (Cardinality(Predecessors(j)) + 1) * d

\* the third job of a station, after two jobs serviced for d each, has
\* waited 2*d, was serviced for d and has left the station
C7_Witness ==
    \E j \in Jobs :
        /\ Cardinality(Predecessors(j)) = 2
        /\ LeftFirst(j)
        /\ UniformBefore(j, procs[j].process_times[1])
        /\ procs[j].stats.waiting_times[1][2] = 2 * procs[j].process_times[1]
        /\ LeftFirstAt(j) = 3 * procs[j].process_times[1]

\* the resource the pending request of a process is for
RequestedResource(p) ==
    IF p.pc = "cure_request" THEN "curing_ovens" ELSE p.steps[p.i][1]

Waiting == { "request", "cure_request" }

\* the step runs the request of process j (line 136 or line 146)
Requests(j) == procs'[j].pc \in Waiting /\ procs[j].pc \notin Waiting

\* the request of process j is in the wait queue of resource r
Pending(pq, r, j) == \E k \in 1 .. Len(pq[r]) : pq[r][k] = j

\* the entry of process j in the grant history of resource r
GrantOf(log, r, j) ==
    log[r][CHOOSE k \in 1 .. Len(log[r]) : log[r][k].proc = j]

\* the request of j found a free slot and an empty queue: it is granted at
\* the same virtual time and in_use grows by exactly one
GrantedAtOnce(r, j) ==
    /\ users'[r] = Append(users[r], j)
    /\ put_queue'[r] = << >>
    /\ grant_log'[r] = Append(grant_log[r], [ proc |-> j, enq |-> now', at |-> now' ])
    /\ \E e \in queue' :
          e.kind = "Request" /\ e.proc = j /\ e.res = r /\ e.time = now'

\* the request of j is appended at the tail and nothing is granted
Enqueued(r, j) ==
    /\ put_queue'[r] = Append(put_queue[r], j)
    /\ users'[r] = users[r]
    /\ \A e \in queue' : ~ (e.kind = "Request" /\ e.proc = j)

\* the request of j is appended at the tail and the slot that a release has
\* left free goes to the request at the head of the queue
EnqueuedBehindGrant(r, j) ==
    /\ put_queue'[r] = Append(Tail(put_queue[r]), j)
    /\ users'[r] = Append(users[r], Head(put_queue[r]))
    /\ Head(put_queue[r]) # j
    /\ \A e \in queue' : ~ (e.kind = "Request" /\ e.proc = j)

\* a process whose request stays in a wait queue does not run, and the wait
\* a process records when it resumes is the time from its request to its
\* grant (0 for a request granted at once)
SuspendedUntilGranted ==
    \A j \in Jobs :
        /\ \A r \in Resources :
              (Pending(put_queue, r, j) /\ Pending(put_queue', r, j))
                  => procs'[j] = procs[j]
        /\ (procs[j].pc \in Waiting /\ procs'[j].pc \notin Waiting) =>
              LET r == RequestedResource(procs[j])
                  g == GrantOf(grant_log, r, j)
                  w == procs'[j].stats.waiting_times
              IN  /\ ~ Pending(put_queue, r, j)
                  /\ w[Len(w)][2] = g.at - g.enq
                  /\ g.at = now'

\* C10 (as claimed) - Request semantics: a request on a resource with
\* in_use below capacity and an empty wait queue is granted at the same
\* virtual time, in_use grows by exactly 1 and the wait recorded is 0;
\* otherwise the request is appended at the tail of the wait queue, in_use is
\* unchanged and the job stays suspended until it is granted.
C10_RequestAsClaimed ==
    [][ /\ \A j \in Jobs : Requests(j) =>
              LET r == RequestedResource(procs'[j])
              IN  IF InUse(r) < Capacity(r) /\ put_queue[r] = << >>
                  THEN GrantedAtOnce(r, j)
                  ELSE Enqueued(r, j)
        /\ SuspendedUntilGranted ]_vars

\* C10 (amended) - as claimed, except that a request arriving while a slot
\* is free and older requests are still queued (a release whose event is not
\* yet processed) is appended at the tail while the request at the head of
\* the queue is granted, so that in_use grows by 1 for another job.
C10_RequestSemantics ==
    [][ /\ \A j \in Jobs : Requests(j) =>
              LET r == RequestedResource(procs'[j])
              IN  IF InUse(r) < Capacity(r) /\ put_queue[r] = << >>
                  THEN GrantedAtOnce(r, j)
                  ELSE IF InUse(r) < Capacity(r)
                       THEN EnqueuedBehindGrant(r, j)
                       ELSE Enqueued(r, j)
        /\ SuspendedUntilGranted ]_vars

\* a job has just requested a full-again station: the slot freed by a
\* release whose event is still pending went to the older request at the
\* head of the queue, and the new request waits at the tail
C10_Witness ==
    \E r \in Resources :
        /\ \E e \in queue : e.kind = "Release" /\ e.res = r /\ e.time = now
        /\ InUse(r) = Capacity(r)
        /\ put_queue[r] # << >>
        /\ grant_log[r] # << >>
        /\ procs[put_queue[r][Len(put_queue[r])]].arrival_time = now
        /\ LET g == grant_log[r][Len(grant_log[r])]
           IN  /\ g.at = now
               /\ g.enq < now
               /\ g.proc = users[r][Len(users[r])]
               /\ \E e \in queue :
                     e.kind = "Request" /\ e.proc = g.proc /\ e.time = now

\* the resource process p holds while it is serviced or cured
HeldResource(p) ==
    IF p.pc = "curing" THEN "curing_ovens" ELSE p.steps[p.i][1]

Holding == { "service", "curing" }

\* the step runs the release of process j (line 142 or line 156)
Releases(j) == procs[j].pc \in Holding /\ procs'[j].pc \notin Holding

\* the Release events of resource r that are scheduled and not yet processed
PendingReleases(q, r) == { e \in q : e.kind = "Release" /\ e.res = r }

\* the release of process j takes its request out of users, in_use falls by
\* exactly one, and nothing is granted inside the step of the releasing job:
\* a Release event due at the current time is scheduled instead
ReleasedBy(j) ==
    LET r == HeldResource(procs[j])
    IN  /\ \E k \in 1 .. Len(users[r]) : users[r][k] = j
        /\ users'[r] = Remove(users[r], j)
        /\ Len(users'[r]) = Len(users[r]) - 1
        /\ put_queue'[r] = put_queue[r]
        /\ grant_log'[r] = grant_log[r]
        /\ \E e \in PendingReleases(queue', r) \ queue :
              e.proc = j /\ e.time = now'

\* a step that grants resource r to a queued request grants exactly the head
\* of the wait queue: in_use is restored, the rest of the queue keeps its
\* order, and the granted job does not run in that step: a Request event due
\* at the current time is scheduled for it
HeadWoken(r) ==
    (Len(grant_log'[r]) > Len(grant_log[r]) /\ put_queue[r] # << >>) =>
        LET h == Head(put_queue[r])
        IN  /\ Len(grant_log'[r]) = Len(grant_log[r]) + 1
            /\ users'[r] = Append(users[r], h)
            /\ \/ put_queue'[r] = Tail(put_queue[r])
               \/ \E j \in Jobs : put_queue'[r] = Append(Tail(put_queue[r]), j)
            /\ procs'[h] = procs[h]
            /\ grant_log'[r][Len(grant_log'[r])].at = now'
            /\ \E e \in queue' \ queue :
                  e.kind = "Request" /\ e.proc = h /\ e.res = r /\ e.time = now'

\* no step reorders a wait queue or takes more than its head out of it
QueueOrderKept(r) ==
    \/ put_queue'[r] = put_queue[r]
    \/ put_queue[r] # << >> /\ put_queue'[r] = Tail(put_queue[r])
    \/ \E j \in Jobs : put_queue'[r] = Append(put_queue[r], j)
    \/ put_queue[r] # << >>
         /\ \E j \in Jobs : put_queue'[r] = Append(Tail(put_queue[r]), j)

\* a slot freed while requests are queued is given away at the same virtual
\* time: its Release event is still to be processed at the current time
FreedSlotPending(r) ==
    (put_queue[r] # << >> /\ InUse(r) < Capacity(r)) =>
        /\ phase = "run"
        /\ Capacity(r) - InUse(r)
               <= Cardinality({ e \in PendingReleases(queue, r) : e.time = now })

\* C11 - Release semantics: every release takes the releasing job's request
\* out of users (in_use falls by 1); if requests are queued, exactly the head
\* request is granted at the same virtual time (one request leaves the queue,
\* in_use is restored, the rest keeps its order), and the granted job is
\* resumed by a scheduled event, not inside the step of the releasing job.
C11_ReleaseSemantics ==
    /\ [](\A r \in Resources : FreedSlotPending(r))
    /\ [][ /\ \A j \in Jobs : Releases(j) => ReleasedBy(j)
           /\ \A r \in Resources : HeadWoken(r) /\ QueueOrderKept(r)
           /\ (\E e \in queue : e.kind = "Release") => now' = now ]_vars

\* a station released with two requests queued has just been granted to the
\* older one at the time of the release: the younger one is still queued and
\* the granted job waits for its Request event
C11_Witness ==
    \E r \in Resources :
        /\ InUse(r) = Capacity(r)
        /\ put_queue[r] # << >>
        /\ PendingReleases(queue, r) = {}
        /\ Len(grant_log[r]) >= 2
        /\ LET g == grant_log[r][Len(grant_log[r])]
           IN  /\ g.at = now
               /\ g.enq < now
               /\ procs[g.proc].pc \in Waiting
               /\ procs[Head(put_queue[r])].arrival_time < now
               /\ \E e \in queue :
                     e.kind = "Request" /\ e.proc = g.proc /\ e.time = now

\* number of stages of its route process j has released
ReleasedStages(j) ==
    IF procs[j].pc \in { "request", "service" } THEN procs[j].i - 1
    ELSE IF procs[j].pc \in { "cure_request", "curing" } THEN Len(procs[j].steps)
    ELSE IF procs[j].pc = "finished" THEN Len(procs[j].steps) + 1
    ELSE 0

\* resource of the m-th stage of process j
StageResource(j, m) ==
    IF m <= Len(procs[j].steps) THEN procs[j].steps[m][1] ELSE "curing_ovens"

\* the Timeout events scheduled for process j
TimeoutsOf(q, j) == { e \in q : e.kind = "Timeout" /\ e.proc = j }

\* the step in which process j requests a stage: the arrival time is the
\* current time and the request is for the resource of the next stage in
\* route order, queued or granted
RequestsStage(j) ==
    Requests(j) =>
        LET r == RequestedResource(procs'[j])
        IN  /\ procs'[j].arrival_time = now'
            /\ r = StageResource(j, ReleasedStages(j) + 1)'
            /\ GrantedStages(j)' = ReleasedStages(j)'
            /\ \/ Pending(put_queue', r, j)
               \/ \E k \in 1 .. Len(users'[r]) : users'[r][k] = j

\* the step in which process j resumes with its request granted: it holds
\* the resource, records wait = now - a under the name of the stage, samples
\* a duration and starts the timeout of that duration
ResumesGranted(j) ==
    (procs[j].pc \in Waiting /\ procs'[j].pc \notin Waiting) =>
        LET r == RequestedResource(procs[j])
            w == procs'[j].stats.waiting_times
            d == procs'[j].process_times
        IN  /\ procs'[j].pc \in Holding
            /\ \E k \in 1 .. Len(users[r]) : users[r][k] = j
            /\ users'[r] = users[r]
            /\ w = Append(procs[j].stats.waiting_times,
                          << StageName(j, GrantedStages(j) + 1),
                             now' - procs[j].arrival_time >>)
            /\ Len(d) = Len(procs[j].process_times) + 1
            /\ d[Len(d)] >= 0
            /\ TimeoutsOf(queue', j)
                   = { e \in queue' \ queue : e.time = now' + d[Len(d)] }
            /\ Cardinality(TimeoutsOf(queue', j)) = 1

\* the step in which process j releases: its timeout has expired at the
\* current time
ReleasesExpired(j) ==
    Releases(j) =>
        /\ TimeoutsOf(queue, j) = { NextEvent(queue) }
        /\ now' = NextEvent(queue).time
        /\ TimeoutsOf(queue', j) = {}

\* the step in which process j finishes: it has released the ovens, is marked
\* complete at the current time and its stats are handed to production_stats
HandedOver(j) ==
    (procs'[j].pc = "finished" /\ procs[j].pc # "finished") =>
        /\ procs[j].pc = "curing"
        /\ procs'[j].stats.end_time = now'
        /\ procs'[j].stats.waiting_times = procs[j].stats.waiting_times
        /\ production_stats' = Append(production_stats, procs'[j].stats)

\* every stage a process was granted has exactly one record, in route order
OneRecordPerStage(j) ==
    /\ Len(procs[j].stats.waiting_times) = GrantedStages(j)
    /\ \A m \in 1 .. Len(procs[j].stats.waiting_times) :
          /\ procs[j].stats.waiting_times[m][1] = StageName(j, m)
          /\ procs[j].stats.waiting_times[m][2] >= 0

\* the steps of the protocol other than the time of the record
StageProtocol ==
    \A j \in Jobs :
        /\ RequestsStage(j)
        /\ ResumesGranted(j)
        /\ ReleasesExpired(j)
        /\ HandedOver(j)
        /\ procs'[j].stats.waiting_times # procs[j].stats.waiting_times =>
              \/ procs[j].pc \in Waiting /\ procs'[j].pc \in Holding
              \/ procs[j].pc = "created"

\* C12 (as claimed) - Per-stage protocol: for every stage in route order the
\* job records its arrival time, requests the resource and is granted it,
\* records the wait, waits out the service duration, releases the resource
\* and only then appends the record of the stage: a job has one record for
\* each stage it has released, and none for the stage it holds.
C12_RecordAfterRelease ==
    /\ [](\A j \in Jobs :
            Len(procs[j].stats.waiting_times) = ReleasedStages(j))
    /\ [][StageProtocol]_vars

\* C12 (amended) - as claimed, except that the record of a stage (its name
\* and its wait) is written when the job resumes with the grant, before the
\* service duration and the release: a job has one record for each stage it
\* was granted, in route order, the stage it holds included.
C12_RecordAtGrant ==
    /\ [](\A j \in Jobs : OneRecordPerStage(j))
    /\ [][StageProtocol]_vars

\* a job that waited for a station holds it, its service timeout running,
\* with the record of that stage already written after the records of the
\* stages it has released
C12_Witness ==
    \E j \in Jobs :
        /\ procs[j].pc = "service"
        /\ procs[j].i >= 2
        /\ Len(procs[j].stats.waiting_times) = ReleasedStages(j) + 1
        /\ procs[j].stats.waiting_times[procs[j].i][2] > 0
        /\ \E e \in TimeoutsOf(queue, j) : e.time > now
        /\ \E k \in 1 .. Len(users[HeldResource(procs[j])]) :
              users[HeldResource(procs[j])][k] = j

\* the step fires one event: the earliest due and, among the events due at
\* that time, the one scheduled first (lowest event id)
FiresInScheduledOrder ==
    phase = "run" =>
        \E e \in queue :
            /\ queue \ queue' = { e }
            /\ now' = e.time
            /\ \A f \in queue :
                  /\ f.time >= e.time
                  /\ f.time = e.time => e.eid <= f.eid

\* the jobs that have started are the first ones created
StartedInCreationOrder ==
    \A j, k \in Jobs :
        (j < k /\ procs[k].pc # "created") => procs[j].pc # "created"

\* the stations a route begins with
FirstStations == { Steps(k)[1][1] : k \in TyreTypes }

\* resource r has been granted to jobs in the order of their creation
GrantedInCreationOrder(r) ==
    \A a, b \in 1 .. Len(grant_log[r]) :
        a < b => grant_log[r][a].proc < grant_log[r][b].proc

\* C13 - Same-instant ordering: every step of the run fires the earliest
\* event and, among events due at the same virtual time, the one scheduled
\* first; the jobs, all created at time 0, start in creation order, and the
\* station a route begins with is granted to the jobs of that route in
\* creation order.
C13_SameInstantOrder ==
    /\ [](/\ StartedInCreationOrder
          /\ \A j \in Jobs : procs[j].pc # "created" => procs[j].stats.start_time = 0
          /\ \A r \in FirstStations : GrantedInCreationOrder(r))
    /\ [][FiresInScheduledOrder]_vars

\* three jobs of one route created at time 0: the first two were granted
\* their first station in creation order, the third is queued there, and
\* two events due at the current time are pending
C13_Witness ==
    \E r \in FirstStations :
        /\ Len(grant_log[r]) = 2
        /\ grant_log[r][1].proc < grant_log[r][2].proc
        /\ put_queue[r] # << >>
        /\ grant_log[r][2].proc < Head(put_queue[r])
        /\ Cardinality({ e \in queue : e.time = now }) >= 2

\* the route of a tyre type: the resources it is to occupy, in order
Route(tyre_type) ==
    IF tyre_type = "Resilient-SoftBond" THEN
        << "wrap_inner_heal", "apply_bead", "wrap_heal", "resilient_bond",
           "wrap_soft", "wrap_tread", "press", "curing_ovens" >>
    ELSE IF tyre_type = "Resilient-Basic" THEN
        << "wrap_inner_heal", "apply_bead", "wrap_heal", "wrap_tread", "press",
           "curing_ovens" >>
    ELSE
        << "press_on_bond", "wrap_soft", "wrap_tread", "press",
           "curing_ovens" >>

\* the grants of resource r to process j
GrantsTo(r, j) == { k \in 1 .. Len(grant_log[r]) : grant_log[r][k].proc = j }

\* the resources process j has occupied so far
Occupied(j) == { r \in Resources : GrantsTo(r, j) # {} }

\* time at which process j came to occupy resource r
OccupiedAt(r, j) == grant_log[r][CHOOSE k \in GrantsTo(r, j) : TRUE].at

\* process j occupies resource r now
Occupies(r, j) == \E k \in 1 .. Len(users[r]) : users[r][k] = j

\* the resources process j has occupied are the first ones of its route,
\* each occupied once, one after the other, and the only resource it may
\* occupy now is the last of them
FollowsRoute(j) ==
    LET route == Route(procs[j].order.tyre_type)
        n == Cardinality(Occupied(j))
    IN  /\ n <= Len(route)
        /\ Occupied(j) = { route[m] : m \in 1 .. n }
        /\ \A r \in Occupied(j) : Cardinality(GrantsTo(r, j)) = 1
        /\ \A m \in 1 .. n - 1 :
              OccupiedAt(route[m], j) < OccupiedAt(route[m + 1], j)
        /\ \A r \in Resources : Occupies(r, j) => (n > 0 /\ r = route[n])

\* C14 - Route order by kind: a Resilient-SoftBond job occupies
\* wrap_inner_heal, apply_bead, wrap_heal, resilient_bond, wrap_soft,
\* wrap_tread, press and then a curing oven; a Resilient-Basic job
\* wrap_inner_heal, apply_bead, wrap_heal, wrap_tread, press and then a curing
\* oven; a Press-On job press_on_bond, wrap_soft, wrap_tread, press and then a
\* curing oven; no job occupies a resource outside its route, or a later
\* stage before an earlier one, and a finished job has occupied all of them.
C14_RouteOrder ==
    \A j \in Jobs :
        /\ FollowsRoute(j)
        /\ Finished(j) =>
              Cardinality(Occupied(j)) = Len(Route(procs[j].order.tyre_type))

\* a Resilient-Basic job has finished its route and a job of another kind
\* has come to occupy a curing oven
C14_Witness ==
    /\ \E j \in Jobs :
          Finished(j) /\ procs[j].order.tyre_type = "Resilient-Basic"
    /\ \E j \in Jobs :
          /\ procs[j].order.tyre_type # "Resilient-Basic"
          /\ Cardinality(Occupied(j)) >= 5

\* env.run has returned
Ended == phase \in { "stopped", "returned" }

\* the run was not cut off by the horizon: it ended with no event left to
\* fire, so that no job was waiting for a timeout
NotCutOff == Ended /\ queue = {}

\* no request is waiting in a queue
NoRequestPending == \A r \in Resources : put_queue[r] = << >>

\* every job has gone through all its stages and is recorded as completed
AllCompleted ==
    \A j \in Jobs :
        /\ Finished(j)
        /\ InStats(j)
        /\ Len(procs[j].stats.waiting_times) = Len(procs[j].steps) + 1

\* C15 - No starvation / progress: the run always comes to its end and
\* returns; when it was not cut off by the horizon (no event was left
\* unfired), every request that was enqueued has been granted, no resource is
\* held, and every created job has completed all its stages and is recorded
\* as completed: the jobs never wait on each other without an event pending.
C15_Progress ==
    /\ <>(phase = "returned")
    /\ [](NotCutOff =>
            /\ Len(procs) = SumSeq([ k \in 1 .. Len(orders) |-> orders[k].quantity ])
            /\ NoRequestPending
            /\ AllCompleted
            /\ \A r \in Resources : InUse(r) = 0)

\* a run that was not cut off has returned: more jobs than the ovens take
\* were created, one of them had to wait for an oven, and all are completed
C15_Witness ==
    /\ phase = "returned"
    /\ NotCutOff
    /\ Len(procs) > OvenCapacity
    /\ Len(production_stats) = Len(procs)
    /\ \E k \in 1 .. Len(production_stats) :
          SumSeq(WaitsOf(production_stats[k].waiting_times, "curing")) > 0

\* the releases the step runs: the Release events it schedules
NewReleases == { e \in queue' \ queue : e.kind = "Release" }

\* number of requests of process j among the users of resource r
Holds(us, r, j) == Cardinality({ k \in 1 .. Len(us[r]) : us[r][k] = j })

\* a release is run by the job whose timeout has just expired, on the request
\* it was granted for the stage it is in and has not released yet; the
\* timeout was started at the grant and ran for the sampled duration
ReleaseHeld(e) ==
    LET j == e.proc
        r == e.res
        ev == NextEvent(queue)
    IN  /\ ev.kind = "Timeout"
        /\ ev.proc = j
        /\ ev.time = now'
        /\ r = HeldResource(procs[j])
        /\ Holds(users, r, j) = 1
        /\ Holds(users', r, j) = 0
        /\ GrantsTo(r, j) # {}
        /\ ev.time = OccupiedAt(r, j)
                         + procs[j].process_times[Len(procs[j].process_times)]
        /\ \A f \in NewReleases : f = e

\* a request leaves the users only by a release of its job, and enters them
\* only by a new grant
HeldUntilReleased(r, j) ==
    /\ Holds(users', r, j) < Holds(users, r, j) =>
          \E e \in NewReleases : e.proc = j /\ e.res = r
    /\ Holds(users', r, j) > Holds(users, r, j) =>
          /\ Len(grant_log'[r]) = Len(grant_log[r]) + 1
          /\ grant_log'[r][Len(grant_log'[r])].proc = j

\* C16 - Release discipline: every release is run by the job that holds the
\* request, on a request that was granted and is not yet released, when the
\* service timeout of that stage has expired; a request leaves the users
\* only by that release, so that every granted request is released at most
\* once and no release meets a request that is not held.
C16_ReleaseDiscipline ==
    /\ [](\A r \in Resources : \A j \in Jobs : Holds(users, r, j) <= 1)
    /\ [][ /\ \A e \in NewReleases : ReleaseHeld(e)
           /\ \A r \in Resources : \A j \in Jobs : HeldUntilReleased(r, j) ]_vars

\* a job that had waited for a station has just released it, with a request
\* queued behind it: its Release event is pending and it holds nothing
C16_Witness ==
    \E e \in PendingReleases(queue, "wrap_tread") :
        /\ e.time = now
        /\ now > 0
        /\ Holds(users, e.res, e.proc) = 0
        /\ put_queue[e.res] # << >>
        /\ \E k \in GrantsTo(e.res, e.proc) :
              grant_log[e.res][k].at > grant_log[e.res][k].enq

\* number of requests of process j in the wait queue of resource r
Queued(r, j) == Cardinality({ k \in 1 .. Len(put_queue[r]) : put_queue[r][k] = j })

RECURSIVE SumOver(_, _)
\* sum of f over the resources of set S
SumOver(f, S) ==
    IF S = {} THEN 0
    ELSE LET r == CHOOSE r \in S : TRUE IN f[r] + SumOver(f, S \ { r })

\* number of resources process j holds
HeldCount(j) == SumOver([ r \in Resources |-> Holds(users, r, j) ], Resources)

\* number of pending requests of process j
PendingCount(j) == SumOver([ r \in Resources |-> Queued(r, j) ], Resources)

\* C17 - Single holding: in every reachable state each job holds at most one
\* resource, has at most one pending request, and has no pending request
\* while it holds a resource; a job that waits or is serviced holds or
\* awaits exactly the resource of its current stage.
C17_SingleHolding ==
    \A j \in Jobs :
        /\ HeldCount(j) <= 1
        /\ PendingCount(j) <= 1
        /\ HeldCount(j) + PendingCount(j) <= 1
        /\ procs[j].pc \in Holding => Holds(users, HeldResource(procs[j]), j) = 1
        /\ procs[j].pc \in Waiting =>
              Holds(users, RequestedResource(procs[j]), j)
                  + Queued(RequestedResource(procs[j]), j) = 1
        /\ procs[j].pc \in { "created", "finished" } =>
              HeldCount(j) + PendingCount(j) = 0

\* a job has released its previous station and waits in the queue of the
\* next one, held by another job, while a third job holds the station the
\* first has left
C17_Witness ==
    \E j \in Jobs :
        /\ procs[j].pc = "request"
        /\ procs[j].i >= 2
        /\ PendingCount(j) = 1
        /\ HeldCount(j) = 0
        /\ \E k \in Jobs \ { j } : Holds(users, RequestedResource(procs[j]), k) = 1
        /\ \E k \in Jobs \ { j } :
              Holds(users, procs[j].steps[procs[j].i - 1][1], k) = 1

\* total of the quantities of the orders
TotalQuantity == SumSeq([ k \in 1 .. Len(orders) |-> orders[k].quantity ])

\* an entry of production_stats is consistent: it ends after it starts, its
\* total is the difference, and no wait is negative
ConsistentEntry(stat) ==
    /\ 0 <= stat.start_time
    /\ stat.start_time <= stat.end_time
    /\ stat.end_time <= now
    /\ stat.total_production_time = stat.end_time - stat.start_time
    /\ \A m \in 1 .. Len(stat.waiting_times) : stat.waiting_times[m][2] >= 0
    /\ SumSeq([ m \in 1 .. Len(stat.waiting_times) |-> stat.waiting_times[m][2] ])
           <= stat.total_production_time

\* the job of an entry was granted an oven and has released it
OvenReleased(stat) ==
    /\ stat.serial_number \in Jobs
    /\ GrantsTo("curing_ovens", stat.serial_number) # {}
    /\ Holds(users, "curing_ovens", stat.serial_number) = 0
    /\ Finished(stat.serial_number)
    /\ procs[stat.serial_number].stats = stat

\* C18 - Completion records: in every reachable state production_stats holds
\* each job at most once, has at most as many entries as the orders'
\* quantities add up to, is in completion order (non-decreasing end_time),
\* holds only jobs that have released the curing oven, and every entry has
\* start_time <= end_time, total_production_time = end_time - start_time and
\* only non-negative waits.
C18_CompletionRecords ==
    /\ Len(production_stats) <= TotalQuantity
    /\ \A a, b \in 1 .. Len(production_stats) :
          a < b =>
              /\ production_stats[a].serial_number # production_stats[b].serial_number
              /\ production_stats[a].end_time <= production_stats[b].end_time
    /\ \A a \in 1 .. Len(production_stats) :
          /\ OvenReleased(production_stats[a])
          /\ ConsistentEntry(production_stats[a])

\* two jobs are recorded, completed at different times, one of them after a
\* wait in a queue, while a third job is still in its oven
C18_Witness ==
    /\ Len(production_stats) >= 2
    /\ production_stats[1].end_time < production_stats[Len(production_stats)].end_time
    /\ \E a \in 1 .. Len(production_stats) :
          \E m \in 1 .. Len(production_stats[a].waiting_times) :
              production_stats[a].waiting_times[m][2] > 0
    /\ InUse("curing_ovens") > 0

\* the clock value (seconds) of a time given in minutes
ClockOf(minutes) == minutes * 60

\* C19 - Horizon bound: the virtual clock never exceeds the horizon
\* (simulation_time), every completed job's end_time is at most the horizon,
\* and the total_simulation_time of the returned insights is the clock value
\* at which the run stopped, which is the horizon.
C19_HorizonBound ==
    /\ now <= ClockOf(simulation_time)
    /\ \A k \in 1 .. Len(production_stats) :
          production_stats[k].end_time <= ClockOf(simulation_time)
    /\ Ended => now = ClockOf(simulation_time)
    /\ (phase = "returned" /\ insights.kind = "dict") =>
          /\ insights.overall_statistics.total_simulation_time = now
          /\ insights.overall_statistics.total_simulation_time
                 = ClockOf(simulation_time)

\* the insights were returned for a run that the horizon cut off: a job is
\* recorded, an event is left unfired, and the last event fired was due
\* before the horizon
C19_Witness ==
    /\ phase = "returned"
    /\ insights.kind = "dict"
    /\ insights.overall_statistics.total_simulation_time = ClockOf(simulation_time)
    /\ queue # {}
    /\ \A k \in 1 .. Len(production_stats) :
          production_stats[k].end_time < ClockOf(simulation_time)

=============================================================================
